---- MODULE Spec2Model ----
(***************************************************************************)
(* Model of the ng-openapi command line entry point                        *)
(* (packages/ng-openapi/src/lib/cli.ts): loadConfigFile, isUrl,            *)
(* validateInput and generateFromOptions.                                  *)
(*                                                                         *)
(* JavaScript strings that the code inspects or passes on (paths, URLs,    *)
(* option values) are sequences of one-character strings, so that URL      *)
(* parsing, path.extname, toLowerCase and path.resolve are computed        *)
(* character by character.  The fixed texts of messages are TLA+ strings.  *)
(***************************************************************************)
EXTENDS Integers, Sequences, FiniteSets, TLC

VARIABLES
    files,      \* regular files present on disk (absolute paths)
    modules,    \* what evaluating each configuration file yields now
    tsNode,     \* whether require("ts-node/register") succeeds
    cache,      \* require.cache, keyed by resolved file name
    pc,         \* position of the process
    options,    \* the options object of the current generateFromOptions run
    arg,        \* the argument of the last direct call of a function
    result,     \* what the last call of loadConfigFile/validateInput did
    request,    \* the config handed to generateFromConfig
    trace,      \* the steps the current run has taken, in order
    stdout,     \* console.log output of the run
    stderr,     \* console.error output of the run
    exitCode,   \* exit status of the process once it has ended
    loads       \* completed loadConfigFile calls of this process

vars == <<files, modules, tsNode, cache, pc, options, arg, result, request,
          trace, stdout, stderr, exitCode, loads>>

----------------------------------------------------------------------------
(* Characters and strings *)

UpperChars == <<"A","B","C","D","E","F","G","H","I","J","K","L","M",
                "N","O","P","Q","R","S","T","U","V","W","X","Y","Z">>
LowerChars == <<"a","b","c","d","e","f","g","h","i","j","k","l","m",
                "n","o","p","q","r","s","t","u","v","w","x","y","z">>
DigitChars == {"0","1","2","3","4","5","6","7","8","9"}

IsUpper(c) == \E i \in 1..Len(UpperChars) : UpperChars[i] = c
IsAlpha(c) == IsUpper(c) \/ \E i \in 1..Len(LowerChars) : LowerChars[i] = c

toLowerChar(c) ==
    IF IsUpper(c)
    THEN LowerChars[CHOOSE i \in 1..Len(UpperChars) : UpperChars[i] = c]
    ELSE c

\* String.prototype.toLowerCase
toLowerCase(s) == [i \in 1..Len(s) |-> toLowerChar(s[i])]

\* index of the first / last occurrence of character c in s, 0 when absent
IndexOf(s, c) ==
    IF \E i \in 1..Len(s) : s[i] = c
    THEN CHOOSE i \in 1..Len(s) : s[i] = c /\ \A j \in 1..(i - 1) : s[j] # c
    ELSE 0
LastIndexOf(s, c) ==
    IF \E i \in 1..Len(s) : s[i] = c
    THEN CHOOSE i \in 1..Len(s) : s[i] = c /\ \A j \in (i + 1)..Len(s) : s[j] # c
    ELSE 0

endsWith(s, suffix) ==
    /\ Len(s) >= Len(suffix)
    /\ SubSeq(s, Len(s) - Len(suffix) + 1, Len(s)) = suffix

----------------------------------------------------------------------------
(* Paths (POSIX) *)

\* process.cwd()
cwd == <<"/", "w">>

RECURSIVE SplitPath(_, _)
SplitPath(s, cur) ==
    IF s = <<>> THEN <<cur>>
    ELSE IF Head(s) = "/" THEN <<cur>> \o SplitPath(Tail(s), <<>>)
    ELSE SplitPath(Tail(s), Append(cur, Head(s)))

RECURSIVE NormSegments(_, _)
NormSegments(segs, acc) ==
    IF segs = <<>> THEN acc
    ELSE LET h == Head(segs) IN
         IF h = <<>> \/ h = <<".">> THEN NormSegments(Tail(segs), acc)
         ELSE IF h = <<".", ".">>
         THEN NormSegments(Tail(segs),
                           IF acc = <<>> THEN acc ELSE SubSeq(acc, 1, Len(acc) - 1))
         ELSE NormSegments(Tail(segs), Append(acc, h))

RECURSIVE JoinPath(_)
JoinPath(segs) ==
    IF segs = <<>> THEN <<>> ELSE <<"/">> \o Head(segs) \o JoinPath(Tail(segs))

\* path.resolve(p): absolute, normalised, no trailing slash
resolve(p) ==
    LET abs  == IF p # <<>> /\ Head(p) = "/" THEN p ELSE cwd \o <<"/">> \o p
        segs == NormSegments(SplitPath(abs, <<>>), <<>>)
    IN  IF segs = <<>> THEN <<"/">> ELSE JoinPath(segs)

RECURSIVE StripTrailingSlashes(_)
StripTrailingSlashes(s) ==
    IF s # <<>> /\ s[Len(s)] = "/"
    THEN StripTrailingSlashes(SubSeq(s, 1, Len(s) - 1))
    ELSE s

\* path.extname(p): from the last "." of the last path component to its
\* end; "" when there is none, or when that component starts with its only
\* "." (a dot file), or is ".."
extname(p) ==
    LET trimmed == StripTrailingSlashes(p)
        slash   == LastIndexOf(trimmed, "/")
        base    == SubSeq(trimmed, slash + 1, Len(trimmed))
        dot     == LastIndexOf(base, ".")
    IN  IF dot = 0 \/ dot = 1 \/ base = <<".", ".">> THEN <<>>
        ELSE SubSeq(base, dot, Len(base))

\* a directory exists when it is the root, the working directory or an
\* ancestor of a file on disk
IsDirectory(abs, fs) ==
    \/ abs = <<"/">>
    \/ abs = cwd
    \/ \E f \in fs : /\ Len(f) > Len(abs)
                     /\ SubSeq(f, 1, Len(abs)) = abs
                     /\ f[Len(abs) + 1] = "/"

\* fs.existsSync(p) on the file system fs
existsSync(p, fs) ==
    /\ p # <<>>
    /\ \/ IsDirectory(resolve(p), fs)
       \/ resolve(p) \in fs /\ p[Len(p)] # "/"

----------------------------------------------------------------------------
(* new URL(input): the WHATWG parser without a base URL, on strings of     *)
(* letters, digits, "+", "-", ".", ":" and "/"                             *)

IsSchemeChar(c) == IsAlpha(c) \/ c \in DigitChars \/ c \in {"+", "-", "."}

\* the schemes whose URLs must name a host
HostSchemes == { <<"h","t","t","p">>, <<"h","t","t","p","s">>,
                 <<"f","t","p">>, <<"w","s">>, <<"w","s","s">> }

RECURSIVE StripLeadingSlashes(_)
StripLeadingSlashes(s) ==
    IF s # <<>> /\ Head(s) = "/" THEN StripLeadingSlashes(Tail(s)) ELSE s

\* [ok, protocol]: ok is FALSE where the constructor throws
parseURL(input) ==
    LET colon  == IndexOf(input, ":")
        scheme == toLowerCase(SubSeq(input, 1, colon - 1))
        rest   == StripLeadingSlashes(SubSeq(input, colon + 1, Len(input)))
        hasScheme == /\ colon >= 2
                     /\ IsAlpha(input[1])
                     /\ \A j \in 2..(colon - 1) : IsSchemeChar(input[j])
        hasHost == rest # <<>> /\ Head(rest) \notin {":", "/"}
    IN  IF hasScheme /\ (scheme \in HostSchemes => hasHost)
        THEN [ok |-> TRUE, protocol |-> Append(scheme, ":")]
        ELSE [ok |-> FALSE, protocol |-> <<>>]

isUrl(input) == parseURL(input).ok

----------------------------------------------------------------------------
(* JavaScript values *)

JsUndef   == [t |-> "undefined", s |-> <<>>, b |-> FALSE]
JsStr(s)  == [t |-> "string", s |-> s, b |-> FALSE]
JsBool(b) == [t |-> "boolean", s |-> <<>>, b |-> b]

\* ToBoolean on the values above
Truthy(v) == (v.t = "string" /\ v.s # <<>>) \/ (v.t = "boolean" /\ v.b)

\* a || b
OrElse(a, b) == IF Truthy(a) THEN a ELSE b

\* the options sub-record of a GeneratorConfig; t is "undefined" where the
\* property is missing
UndefOptions ==
    [t |-> "undefined", dateType |-> JsUndef, enumStyle |-> JsUndef,
     generateEnumBasedOnDescription |-> JsUndef, generateServices |-> JsUndef]

\* a GeneratorConfig-shaped value; t is "object", "undefined" or "null"
UndefConfig ==
    [t |-> "undefined", input |-> JsUndef, output |-> JsUndef,
     options |-> UndefOptions]
NullConfig == [UndefConfig EXCEPT !.t = "null"]
EmptyConfig == [UndefConfig EXCEPT !.t = "object"]

\* an error: message = the prefixes, then text, then arg
Err(text, a) == [prefix |-> <<>>, text |-> text, arg |-> a]
NoError == Err("", <<>>)

----------------------------------------------------------------------------
(* validateInput, cli.ts 53-76 *)

HttpProtocols == { <<"h","t","t","p",":">>, <<"h","t","t","p","s",":">> }

supportedExtensions ==
    { <<".","j","s","o","n">>, <<".","y","a","m","l">>, <<".","y","m","l">> }

MsgUnsupportedProtocol == "Unsupported URL protocol: "
MsgInputNotFound == "Input file not found: "
MsgFailedToParse == "Failed to parse "
WordSpecification == <<"s","p","e","c","i","f","i","c","a","t","i","o","n">>

\* what one call of validateInput does: ok is FALSE where it throws error;
\* probes are the arguments it passed to fs.existsSync, extChecked whether
\* it looked at the extension
Validation(ok, error, probes, extChecked) ==
    [ok |-> ok, error |-> error, probes |-> probes, extChecked |-> extChecked]

\* a protocol test that lets every protocol through
anyProtocolSupported(url) == TRUE

\* ['http:', 'https:'].includes(url.protocol)
protocolSupported(url) == url.protocol \in HttpProtocols

\* the extension as written, without toLowerCase
extensionAsWritten(inputPath) == extname(inputPath)

\* path.extname(inputPath).toLowerCase()
extensionOf(inputPath) == toLowerCase(extname(inputPath))

validateInput(inputPath, fs) ==
    IF isUrl(inputPath)
    THEN LET url == parseURL(inputPath) IN
         IF ~protocolSupported(url)
         THEN Validation(FALSE, Err(MsgUnsupportedProtocol, url.protocol), <<>>, FALSE)
         ELSE Validation(TRUE, NoError, <<>>, FALSE)
    ELSE IF ~existsSync(inputPath, fs)
    THEN Validation(FALSE, Err(MsgInputNotFound, inputPath), <<inputPath>>, FALSE)
    ELSE LET extension == extensionOf(inputPath) IN
         IF extension \notin supportedExtensions
         THEN Validation(FALSE,
                         Err(MsgFailedToParse,
                             IF extension # <<>> THEN extension ELSE WordSpecification),
                         <<inputPath>>, TRUE)
         ELSE Validation(TRUE, NoError, <<inputPath>>, TRUE)

----------------------------------------------------------------------------
(* loadConfigFile, cli.ts 12-42 *)

MsgConfigNotFound == "Configuration file not found: "
MsgCannotFindModule == "Cannot find module "
MsgTsNodeMissing == "Cannot find module 'ts-node/register'"
MsgEvaluationThrew == "error thrown while the module was evaluated"
MsgNullExports == "Cannot read properties of null (reading 'default')"
MsgMustInclude == "Configuration must include \"input\" and \"output\" properties"
MsgFailedToLoad == "Failed to load configuration file: "

ExtTs == <<".", "t", "s">>

\* new Error(`Failed to load configuration file: ${error.message}`)
Wrap(e) == [e EXCEPT !.prefix = <<MsgFailedToLoad>> \o @]

\* module.exports of a configuration file: a GeneratorConfig-shaped value
\* with the properties "default" and "config" added; t is "object", "null"
\* (module.exports = null) or "throws" (evaluation throws)
Exports(t, default, config, self) ==
    [t |-> t, default |-> default, config |-> config,
     input |-> self.input, output |-> self.output, options |-> self.options]

\* the module's own top-level value, seen as a configuration
TopLevel(m) ==
    [t |-> m.t, input |-> m.input, output |-> m.output, options |-> m.options]

\* configModule.default || configModule.config || configModule
exportedConfig(configModule) ==
    IF configModule.default.t = "object" THEN configModule.default
    ELSE IF configModule.config.t = "object" THEN configModule.config
    ELSE TopLevel(configModule)

\* a required-field test that fails only when both are missing
missingBoth(config) == ~Truthy(config.input) /\ ~Truthy(config.output)

\* !config.input || !config.output
missingRequired(config) == ~Truthy(config.input) \/ ~Truthy(config.output)

\* a cache that is left as it is
keepCache(cch, file) == cch

\* delete require.cache[file]
deleteFromCache(cch, file) == [f \in (DOMAIN cch) \ {file} |-> cch[f]]

\* require(file): the cached exports when there are some, else the module is
\* evaluated and, unless that throws, cached
requireFile(file, mods, cch) ==
    IF file \in DOMAIN cch
    THEN [exports |-> cch[file], cache |-> cch, evaluated |-> FALSE]
    ELSE LET m == mods[file] IN
         [exports |-> m,
          cache |-> IF m.t = "throws" THEN cch
                    ELSE [f \in (DOMAIN cch) \cup {file} |->
                             IF f = file THEN m ELSE cch[f]],
          evaluated |-> TRUE]

\* what one call of loadConfigFile does: ok is FALSE where it throws error,
\* value is what it returns, cache the require cache it leaves, cleared
\* whether it deleted the cache entry, evaluated whether the module ran
Loaded(ok, error, value, cch, cleared, evaluated) ==
    [ok |-> ok, error |-> error, value |-> value, cache |-> cch,
     cleared |-> cleared, evaluated |-> evaluated]

loadConfigFile(configPath, fs, mods, cch, tsn) ==
    LET resolvedPath == resolve(configPath) IN
    IF ~existsSync(resolvedPath, fs)
    THEN Loaded(FALSE, Err(MsgConfigNotFound, resolvedPath), UndefConfig, cch,
                FALSE, FALSE)
    ELSE IF resolvedPath \notin fs
    THEN \* require.resolve of a directory without an entry point
         Loaded(FALSE, Err(MsgCannotFindModule, resolvedPath), UndefConfig, cch,
                FALSE, FALSE)
    ELSE
    LET cleared == deleteFromCache(cch, resolvedPath) IN
    IF endsWith(resolvedPath, ExtTs) /\ ~tsn
    THEN Loaded(FALSE, Wrap(Err(MsgTsNodeMissing, <<>>)), UndefConfig, cleared,
                TRUE, FALSE)
    ELSE
    LET r == requireFile(resolvedPath, mods, cleared)
        configModule == r.exports
    IN
    IF configModule.t = "throws"
    THEN Loaded(FALSE, Wrap(Err(MsgEvaluationThrew, <<>>)), UndefConfig, r.cache,
                TRUE, r.evaluated)
    ELSE IF configModule.t = "null"
    THEN Loaded(FALSE, Wrap(Err(MsgNullExports, <<>>)), UndefConfig, r.cache,
                TRUE, r.evaluated)
    ELSE
    LET config == exportedConfig(configModule) IN
    IF missingRequired(config)
    THEN Loaded(FALSE, Wrap(Err(MsgMustInclude, <<>>)), UndefConfig, r.cache,
                TRUE, r.evaluated)
    ELSE Loaded(TRUE, NoError, config, r.cache, TRUE, r.evaluated)

----------------------------------------------------------------------------
(* generateFromOptions, cli.ts 78-115 *)

MsgEitherRequired == "Error: Either --config or --input option is required"
MsgGenerationFailed == "Generation failed:"
MsgSuccess == "Generation completed successfully!"
MsgHelp == "Usage: ng-openapi [options] [command]"
MsgEngineFailed == "error thrown by generateFromConfig"

DefaultOutput ==
    <<".","/","s","r","c","/","g","e","n","e","r","a","t","e","d">>
DateTypeDate == <<"D","a","t","e">>
DateTypeString == <<"s","t","r","i","n","g">>
EnumStyleEnum == <<"e","n","u","m">>
EnumStyleUnion == <<"u","n","i","o","n">>

\* the options object commander hands to the action
Options(config, input, output, typesOnly, dateType) ==
    [config |-> config, input |-> input, output |-> output,
     typesOnly |-> typesOnly, dateType |-> dateType]
NoOptions == Options(JsUndef, JsUndef, JsUndef, JsUndef, JsUndef)

\* a request that copies --types-only into generateServices
mergeFlagsNoNegation(o) ==
    [t |-> "object",
     input |-> o.input,
     output |-> OrElse(o.output, JsStr(DefaultOutput)),
     options |-> [t |-> "object",
                  dateType |-> OrElse(o.dateType, JsStr(DateTypeDate)),
                  enumStyle |-> JsStr(EnumStyleEnum),
                  generateEnumBasedOnDescription |-> JsBool(TRUE),
                  generateServices |-> JsBool(Truthy(o.typesOnly))]]

\* the config literal of lines 92-101
mergeFlags(o) ==
    [t |-> "object",
     input |-> o.input,
     output |-> OrElse(o.output, JsStr(DefaultOutput)),
     options |-> [t |-> "object",
                  dateType |-> OrElse(o.dateType, JsStr(DateTypeDate)),
                  enumStyle |-> JsStr(EnumStyleEnum),
                  generateEnumBasedOnDescription |-> JsBool(TRUE),
                  generateServices |-> JsBool(~Truthy(o.typesOnly))]]

\* where a run stands after its synchronous part
Outcome(p, req, tr, out, err, code, cch) ==
    [pc |-> p, request |-> req, trace |-> tr, stdout |-> out, stderr |-> err,
     exitCode |-> code, cache |-> cch]

\* one console.error line
ErrorLine(marker, error) == [marker |-> marker, error |-> error]

\* a catch block that reports the error and leaves the exit code at 0
catchErrorExitsZero(error, tr, cch) ==
    Outcome("exited", UndefConfig, Append(tr, "console.error"),
            <<>>, <<ErrorLine(MsgGenerationFailed, error)>>, <<0>>, cch)

\* the catch block, lines 111-114
catchError(error, tr, cch) ==
    Outcome("exited", UndefConfig, tr \o <<"console.error", "process.exit">>,
            <<>>, <<ErrorLine(MsgGenerationFailed, error)>>, <<1>>, cch)

\* await generateFromConfig(config)
callEngine(config, tr, cch) ==
    Outcome("engine", config, Append(tr, "generateFromConfig"),
            <<>>, <<>>, <<>>, cch)

\* a validation step whose failure is ignored
afterValidationIgnoringFailure(v, config, tr, cch) == callEngine(config, tr, cch)

\* validateInput threw: to the catch block; else on to the engine
afterValidation(v, config, tr, cch) ==
    IF ~v.ok THEN catchError(v.error, tr, cch) ELSE callEngine(config, tr, cch)

\* lines 80-87
configBranch(o, fs, mods, cch, tsn) ==
    LET l == loadConfigFile(o.config.s, fs, mods, cch, tsn) IN
    IF ~l.ok
    THEN catchError(l.error, <<"loadConfigFile">>, l.cache)
    ELSE afterValidation(validateInput(l.value.input.s, fs), l.value,
                         <<"loadConfigFile", "validateInput">>, l.cache)

\* lines 88-103
flagsBranch(o, fs, cch) ==
    LET v == validateInput(o.input.s, fs) IN
    afterValidation(v, mergeFlags(o),
                    IF v.ok THEN <<"validateInput", "mergeFlags">>
                            ELSE <<"validateInput">>,
                    cch)

\* commander's Command.help(): writes the help text and ends the process
\* with process.exitCode, which nothing has set, so with 0
programHelp == [stdout |-> <<MsgHelp>>, exits |-> TRUE, exitCode |-> <<0>>]

\* lines 104-108; process.exit(1) is reached only if help() returns
usageBranch(cch) ==
    LET h == programHelp IN
    Outcome("exited", UndefConfig,
            <<"console.error", "program.help", "process.exit">>,
            h.stdout, <<ErrorLine(MsgEitherRequired, NoError)>>,
            IF h.exits THEN h.exitCode ELSE <<1>>, cch)

\* a branch choice that looks at --input first
branchInputFirst(o) ==
    IF Truthy(o.input) THEN "flags"
    ELSE IF Truthy(o.config) THEN "config"
    ELSE "usage"

\* if (options.config) ... else if (options.input) ... else ...
branch(o) ==
    IF Truthy(o.config) THEN "config"
    ELSE IF Truthy(o.input) THEN "flags"
    ELSE "usage"

\* the run up to its first suspension or its exit
dispatch(o, fs, mods, cch, tsn) ==
    CASE branch(o) = "config" -> configBranch(o, fs, mods, cch, tsn)
      [] branch(o) = "flags"  -> flagsBranch(o, fs, cch)
      [] OTHER                -> usageBranch(cch)

----------------------------------------------------------------------------
(* The inputs the model draws from *)

\* number of loadConfigFile calls followed in one process
MaxLoads == 2

SlashW == <<"/", "w", "/">>
NameA == <<"a">>
ExtJson == <<".","j","s","o","n">>
ExtJsonUpper == <<".","J","S","O","N">>
ExtYamlMixed == <<".","Y","a","m","l">>
ExtYml == <<".","y","m","l">>
ExtTxt == <<".","t","x","t">>
ExtJsonx == <<".","j","s","o","n","x">>

\* what an input string may start with
Prefixes ==
    { <<>>, <<".","/">>, SlashW, <<".",".","/","w","/">>, <<"s","u","b","/">>,
      <<"h","t","t","p",":","/","/">>, <<"h","t","t","p","s",":","/","/">>,
      <<"H","T","T","P","S",":","/","/">>, <<"h","t","t","p",":">>,
      <<"f","t","p",":","/","/">>, <<"m","a","i","l","t","o",":">>,
      <<"c",":","/">>, <<"1","a",":">>, <<"h","t","t","p","/">> }
Stems == { <<>>, NameA, <<".">>, <<"h","/","a">> }
Extensions ==
    { <<>>, ExtJson, ExtJsonUpper, ExtYamlMixed, ExtYml, ExtTxt, ExtJsonx,
      <<".">>, <<".","j","s","o","n","/">> }

\* the strings validateInput is called with
Inputs == { p \o n \o e : p \in Prefixes, n \in Stems, e \in Extensions }

\* the file systems validateInput(i) is called on: an empty one, one holding
\* the file i names (also when i is a URL), one where i names a directory,
\* and one holding other files only
ValidateFs(i) ==
    LET named == resolve(i)
        free  == ~IsDirectory(named, {})
    IN  { {},
          IF free THEN {named} ELSE {},
          IF free THEN {named \o <<"/", "x">>} ELSE {},
          {SlashW \o <<"b">> \o ExtJson} }

\* configuration files
CfgJs == <<"/","w","/","c","f","g",".","j","s">>
CfgTs == <<"/","w","/","c","f","g",".","t","s">>
ConfigFiles == { CfgJs, CfgTs }

\* values of --config
ConfigArgs ==
    { <<"c","f","g",".","j","s">>, <<".","/","c","f","g",".","t","s">>, CfgJs,
      <<"n","o","c","f","g",".","j","s">>, <<".">> }

\* inputs named by flags and configuration files in whole runs
InJson == <<"a",".","j","s","o","n">>
InYmlUpper == <<"A",".","Y","M","L">>
InTxt == <<"a",".","t","x","t">>
InMissing == <<".","/","m","i","s","s","i","n","g",".","y","a","m","l">>
InHttps == <<"h","t","t","p","s",":","/","/","h","/","a",".","j","s","o","n">>
InFtp == <<"f","t","p",":","/","/","h","/","a",".","j","s","o","n">>
RunInputs == { InJson, InYmlUpper, InTxt, InMissing, InHttps, InFtp }

\* the specification files on disk in whole runs
InputFiles == { SlashW \o InJson, SlashW \o InYmlUpper, SlashW \o InTxt }

OutDir == <<"o","u","t">>

FullOptions ==
    [t |-> "object", dateType |-> JsStr(DateTypeString),
     enumStyle |-> JsStr(EnumStyleUnion),
     generateEnumBasedOnDescription |-> JsBool(FALSE),
     generateServices |-> JsBool(TRUE)]
PartialOptions ==
    [UndefOptions EXCEPT !.t = "object", !.dateType = JsStr(DateTypeDate)]

Config(input, output, opts) ==
    [t |-> "object", input |-> input, output |-> output, options |-> opts]

\* module.exports of the configuration files
ExportDefaultFull ==
    Exports("object", Config(JsStr(InJson), JsStr(OutDir), FullOptions),
            UndefConfig, EmptyConfig)
TopLevelBare ==
    Exports("object", UndefConfig, UndefConfig,
            Config(JsStr(InHttps), JsStr(OutDir), UndefOptions))
NamedPartial ==
    Exports("object", UndefConfig,
            Config(JsStr(InMissing), JsStr(OutDir), PartialOptions), EmptyConfig)
TopLevelNoOutput ==
    Exports("object", UndefConfig, UndefConfig,
            Config(JsStr(InJson), JsUndef, FullOptions))
EvaluationThrows == Exports("throws", UndefConfig, UndefConfig, UndefConfig)
ExportsNull == Exports("null", UndefConfig, UndefConfig, UndefConfig)
DefaultShadowsTopLevel ==
    Exports("object", Config(JsUndef, JsStr(OutDir), FullOptions), UndefConfig,
            Config(JsStr(InJson), JsStr(OutDir), FullOptions))
DefaultBeforeNamed ==
    Exports("object", Config(JsStr(InFtp), JsStr(OutDir), FullOptions),
            Config(JsStr(InJson), JsStr(OutDir), FullOptions), EmptyConfig)
NullDefaultNamedEmptyInput ==
    Exports("object", NullConfig,
            Config(JsStr(<<>>), JsStr(OutDir), FullOptions), EmptyConfig)
TopLevelOptionsOnly ==
    Exports("object", UndefConfig, UndefConfig,
            Config(JsUndef, JsUndef, FullOptions))

RunModules ==
    { ExportDefaultFull, TopLevelBare, NamedPartial, TopLevelNoOutput,
      EvaluationThrows }
ModuleValues ==
    RunModules \cup
    { ExportsNull, DefaultShadowsTopLevel, DefaultBeforeNamed,
      NullDefaultNamedEmptyInput, TopLevelOptionsOnly }

\* the contents each configuration file takes when loadConfigFile is called
\* on its own
ContentsOf(file) ==
    IF file = CfgTs THEN { ExportDefaultFull, TopLevelBare } ELSE ModuleValues

\* the options objects of whole runs: a config path with other flags unset
\* or set, and no config path (undefined or empty) with any flags
RunOptions ==
    { Options(JsStr(c), JsUndef, JsUndef, JsUndef, JsUndef) : c \in ConfigArgs }
    \cup
    { Options(JsStr(c), JsStr(i), JsStr(OutDir), JsBool(TRUE), JsStr(DateTypeString)) :
        c \in ConfigArgs, i \in {InTxt, InHttps} }
    \cup
    { Options(JsUndef, i, o, t, d) :
        i \in {JsUndef, JsStr(<<>>)} \cup {JsStr(p) : p \in RunInputs},
        o \in {JsUndef, JsStr(<<>>), JsStr(OutDir)},
        t \in {JsUndef, JsBool(TRUE)},
        d \in {JsUndef, JsStr(<<>>), JsStr(DateTypeString)} }
    \cup
    { Options(JsStr(<<>>), i, JsUndef, JsUndef, JsUndef) :
        i \in {JsUndef, JsStr(<<>>)} \cup {JsStr(p) : p \in RunInputs} }

----------------------------------------------------------------------------
(* Whole runs of the command *)

NoResult == [fn |-> "none"]

Init ==
    /\ files \in { InputFiles \cup c : c \in SUBSET ConfigFiles }
    /\ modules \in { ms \in [ConfigFiles -> RunModules] :
                        \A f \in ConfigFiles : ms[f] \in ContentsOf(f) }
    /\ tsNode \in BOOLEAN
    /\ cache = <<>>
    /\ pc = "idle"
    /\ options = NoOptions
    /\ arg = <<>>
    /\ result = NoResult
    /\ request = UndefConfig
    /\ trace = <<>>
    /\ stdout = <<>>
    /\ stderr = <<>>
    /\ exitCode = <<>>
    /\ loads = 0

\* commander calls the action with the parsed options; the run goes on to
\* its exit or to the point where it awaits generateFromConfig
GenerateFromOptions(o) ==
    /\ pc = "idle"
    /\ LET r == dispatch(o, files, modules, cache, tsNode) IN
       /\ options' = o
       /\ pc' = r.pc
       /\ request' = r.request
       /\ trace' = r.trace
       /\ stdout' = r.stdout
       /\ stderr' = r.stderr
       /\ exitCode' = r.exitCode
       /\ cache' = r.cache
    /\ UNCHANGED <<files, modules, tsNode, arg, result, loads>>

\* generateFromConfig resolves: line 110, then the process ends by itself
EngineResolves ==
    /\ pc = "engine"
    /\ pc' = "exited"
    /\ trace' = trace \o <<"resolved", "console.log">>
    /\ stdout' = Append(stdout, MsgSuccess)
    /\ exitCode' = <<0>>
    /\ UNCHANGED <<files, modules, tsNode, cache, options, arg, result, request,
                   stderr, loads>>

\* generateFromConfig rejects: the catch block
EngineRejects ==
    /\ pc = "engine"
    /\ LET r == catchError(Err(MsgEngineFailed, <<>>), Append(trace, "rejected"),
                           cache) IN
       /\ pc' = r.pc
       /\ trace' = r.trace
       /\ stderr' = stderr \o r.stderr
       /\ exitCode' = r.exitCode
    /\ UNCHANGED <<files, modules, tsNode, cache, options, arg, result, request,
                   stdout, loads>>

Next ==
    \/ \E o \in RunOptions : GenerateFromOptions(o)
    \/ EngineResolves
    \/ EngineRejects

Spec == Init /\ [][Next]_vars

----------------------------------------------------------------------------
(* validateInput on its own: any of the input strings, on several disks    *)

InitValidate ==
    /\ arg \in Inputs
    /\ files \in ValidateFs(arg)
    /\ modules = [f \in ConfigFiles |-> EvaluationThrows]
    /\ tsNode = FALSE
    /\ cache = <<>>
    /\ pc = "idle"
    /\ options = NoOptions
    /\ result = NoResult
    /\ request = UndefConfig
    /\ trace = <<>>
    /\ stdout = <<>>
    /\ stderr = <<>>
    /\ exitCode = <<>>
    /\ loads = 0

CallValidateInput ==
    /\ pc = "idle"
    /\ result' = [fn |-> "validateInput", v |-> validateInput(arg, files)]
    /\ pc' = "returned"
    /\ UNCHANGED <<files, modules, tsNode, cache, options, arg, request, trace,
                   stdout, stderr, exitCode, loads>>

NextValidate == CallValidateInput

SpecValidate == InitValidate /\ [][NextValidate]_vars

----------------------------------------------------------------------------
(* loadConfigFile called repeatedly in one process, on any initial disk,    *)
(* the configuration files being written and removed between the calls     *)

InitLoad ==
    /\ files \in SUBSET ConfigFiles
    /\ modules \in { ms \in [ConfigFiles -> ModuleValues] :
                        \A f \in ConfigFiles : ms[f] \in ContentsOf(f) }
    /\ tsNode \in BOOLEAN
    /\ cache = <<>>
    /\ pc = "idle"
    /\ options = NoOptions
    /\ arg = <<>>
    /\ result = NoResult
    /\ request = UndefConfig
    /\ trace = <<>>
    /\ stdout = <<>>
    /\ stderr = <<>>
    /\ exitCode = <<>>
    /\ loads = 0

\* one call; the result keeps what was on disk and in the cache at the call
CallLoadConfigFile(configPath) ==
    /\ pc = "idle"
    /\ loads < MaxLoads
    /\ LET l == loadConfigFile(configPath, files, modules, cache, tsNode)
           file == resolve(configPath)
       IN
       /\ result' = [fn |-> "loadConfigFile", l |-> l,
                     onDisk |-> file \in files,
                     disk |-> IF file \in files THEN modules[file]
                              ELSE EvaluationThrows,
                     cached |-> file \in DOMAIN cache,
                     before |-> IF file \in DOMAIN cache THEN cache[file]
                                ELSE EvaluationThrows]
       /\ cache' = l.cache
    /\ arg' = configPath
    /\ loads' = loads + 1
    /\ UNCHANGED <<files, modules, tsNode, pc, options, request, trace, stdout,
                   stderr, exitCode>>

\* the user saves new contents to a configuration file
WriteConfigFile(file, m) ==
    /\ pc = "idle"
    /\ 0 < loads /\ loads < MaxLoads
    /\ modules[file] # m \/ file \notin files
    /\ modules' = [modules EXCEPT ![file] = m]
    /\ files' = files \cup {file}
    /\ UNCHANGED <<tsNode, cache, pc, options, arg, result, request, trace,
                   stdout, stderr, exitCode, loads>>

\* the user deletes a configuration file
RemoveConfigFile(file) ==
    /\ pc = "idle"
    /\ 0 < loads /\ loads < MaxLoads
    /\ file \in files
    /\ files' = files \ {file}
    /\ UNCHANGED <<modules, tsNode, cache, pc, options, arg, result, request,
                   trace, stdout, stderr, exitCode, loads>>

NextLoad ==
    \/ \E p \in ConfigArgs : CallLoadConfigFile(p)
    \/ \E f \in ConfigFiles : \E m \in ContentsOf(f) : WriteConfigFile(f, m)
    \/ \E f \in ConfigFiles : RemoveConfigFile(f)

SpecLoad == InitLoad /\ [][NextLoad]_vars

----------------------------------------------------------------------------
(* Properties *)

InSeq(x, s) == \E i \in DOMAIN s : s[i] = x
Count(x, s) == Cardinality({ i \in DOMAIN s : s[i] = x })
Before(x, y, s) == \E i, j \in DOMAIN s : i < j /\ s[i] = x /\ s[j] = y

Started == pc # "idle"
LoaderRan == InSeq("loadConfigFile", trace)
MergerRan == InSeq("mergeFlags", trace)
EngineInvoked == InSeq("generateFromConfig", trace)
SuccessPrinted == InSeq(MsgSuccess, stdout)
FailurePrinted == \E i \in DOMAIN stderr : stderr[i].marker = MsgGenerationFailed
UsagePrinted ==
    /\ InSeq(ErrorLine(MsgEitherRequired, NoError), stderr)
    /\ InSeq(MsgHelp, stdout)
ExitedNonzero == pc = "exited" /\ exitCode # <<>> /\ exitCode # <<0>>

Validated == result.fn = "validateInput"
LoadCalled == result.fn = "loadConfigFile"

\* C1: a run given neither a config path nor an input (absent or empty) ends
\* with the usage guidance printed, a nonzero exit code, and the engine
\* never invoked.
C1_UsageErrorExitsNonzero ==
    (pc = "exited" /\ ~Truthy(options.config) /\ ~Truthy(options.input)) =>
        /\ UsagePrinted
        /\ ExitedNonzero
        /\ ~EngineInvoked

\* C2: for every input that parses as an absolute URL with a protocol other
\* than http and https, validateInput throws the unsupported-protocol error
\* and makes no existence test and no extension test, whatever is on disk.
C2_UnsupportedProtocolIsFatal ==
    (Validated /\ isUrl(arg) /\ parseURL(arg).protocol \notin HttpProtocols) =>
        /\ ~result.v.ok
        /\ result.v.error = Err(MsgUnsupportedProtocol, parseURL(arg).protocol)
        /\ result.v.probes = <<>>
        /\ ~result.v.extChecked

\* C2 happens: an ftp-like URL was validated while a file of exactly that
\* name, with a supported extension, is on disk.
C2_Witness ==
    /\ Validated
    /\ isUrl(arg)
    /\ parseURL(arg).protocol \notin HttpProtocols
    /\ resolve(arg) \in files
    /\ toLowerCase(extname(arg)) \in supportedExtensions
    /\ ~result.v.ok

\* C3: for every input that does not parse as an absolute URL, validateInput
\* accepts it exactly when the path exists and its extension, whatever its
\* case, is .json, .yaml or .yml; a path that does not exist is rejected as
\* not found (also with an unsupported extension), and an existing path with
\* another extension or none is rejected as an unsupported format.
C3_LocalFileAcceptance ==
    (Validated /\ ~isUrl(arg)) =>
        LET exists == existsSync(arg, files)
            supported == \E e \in supportedExtensions :
                            toLowerCase(extname(arg)) = e
        IN  /\ result.v.ok <=> (exists /\ supported)
            /\ ~exists => /\ ~result.v.ok
                          /\ result.v.error = Err(MsgInputNotFound, arg)
            /\ (exists /\ ~supported) =>
                          /\ ~result.v.ok
                          /\ result.v.error.text = MsgFailedToParse

\* C3 happens: an existing local file whose extension is written in upper
\* or mixed case was accepted.
C3_Witness ==
    /\ Validated
    /\ ~isUrl(arg)
    /\ result.v.ok
    /\ extname(arg) # toLowerCase(extname(arg))

\* the messages of the errors loadConfigFile and validateInput throw
FrontMessages ==
    { MsgConfigNotFound, MsgCannotFindModule, MsgTsNodeMissing,
      MsgEvaluationThrew, MsgNullExports, MsgMustInclude,
      MsgUnsupportedProtocol, MsgInputNotFound, MsgFailedToParse }

\* C4: in every run the engine is invoked at most once, and only after a
\* request was obtained and validateInput accepted the request's input; when
\* loadConfigFile or validateInput fails the engine is never invoked, and no
\* step is tried twice.
C4_EngineOnlyAfterValidation ==
    /\ Count("generateFromConfig", trace) <= 1
    /\ Count("loadConfigFile", trace) <= 1
    /\ Count("validateInput", trace) <= 1
    /\ EngineInvoked =>
        /\ Before("validateInput", "generateFromConfig", trace)
        /\ \/ Before("loadConfigFile", "generateFromConfig", trace)
           \/ Before("mergeFlags", "generateFromConfig", trace)
        /\ request.t = "object"
        /\ validateInput(request.input.s, files).ok
    /\ (\E i \in DOMAIN stderr : stderr[i].error.text \in FrontMessages) =>
        ~EngineInvoked

\* C4 happens: the engine was invoked on the config-file path.
C4_Witness == EngineInvoked /\ LoaderRan /\ pc = "engine"


\* the error the run's steps raise: loadConfigFile, validateInput or the
\* engine; text "" when none does
RaisedError ==
    LET l == loadConfigFile(options.config.s, files, modules, <<>>, tsNode) IN
    CASE branch(options) = "config" /\ ~l.ok -> l.error
      [] branch(options) = "config" /\ l.ok /\ ~validateInput(l.value.input.s, files).ok
            -> validateInput(l.value.input.s, files).error
      [] branch(options) = "flags" /\ ~validateInput(options.input.s, files).ok
            -> validateInput(options.input.s, files).error
      [] InSeq("rejected", trace) -> Err(MsgEngineFailed, <<>>)
      [] OTHER -> NoError

\* C5: every run ends in exactly one outcome; the success confirmation is
\* printed and the exit code is 0 exactly when the engine was invoked and
\* completed without error; an error of loadConfigFile, validateInput or
\* the engine is printed once, as the failure marker with the causing
\* message, and ends the run with a nonzero exit code and no confirmation.
C5_OneOutcomePerRun ==
    pc = "exited" =>
        /\ (SuccessPrinted /\ exitCode = <<0>>) <=> InSeq("resolved", trace)
        /\ RaisedError # NoError =>
            /\ stderr = <<ErrorLine(MsgGenerationFailed, RaisedError)>>
            /\ ExitedNonzero
            /\ ~SuccessPrinted
        /\ \/ SuccessPrinted /\ ~FailurePrinted /\ ~UsagePrinted
           \/ ~SuccessPrinted /\ FailurePrinted /\ ~UsagePrinted
           \/ ~SuccessPrinted /\ ~FailurePrinted /\ UsagePrinted

\* C5 happens: an https input was given by flag, the engine succeeded and
\* the run has ended.
C5_Witness ==
    /\ pc = "exited"
    /\ options.input = JsStr(InHttps)
    /\ ~Truthy(options.config)
    /\ InSeq("resolved", trace)
    /\ SuccessPrinted

FullyPopulated(config) ==
    /\ config.t = "object"
    /\ Truthy(config.input)
    /\ Truthy(config.output)
    /\ config.options.t = "object"
    /\ config.options.dateType.t # "undefined"
    /\ config.options.enumStyle.t # "undefined"
    /\ config.options.generateEnumBasedOnDescription.t # "undefined"
    /\ config.options.generateServices.t # "undefined"

\* C6: whenever the engine is invoked, on the config-file path as on the
\* flags path, the request it receives has a non-empty input and output and
\* a value for every field of options.
C6_RequestFullyPopulated == EngineInvoked => FullyPopulated(request)

\* C7 as stated: in every run exactly one of loadConfigFile and the
\* flag-driven construction of the request executes; with a config path the
\* loader runs, without one the request is built from the flags.
C7_ExactlyOneBranch ==
    Started =>
        /\ (LoaderRan /\ ~MergerRan) \/ (~LoaderRan /\ MergerRan)
        /\ Truthy(options.config) => LoaderRan
        /\ ~Truthy(options.config) => MergerRan

\* C7 as amended: in every run at most one of loadConfigFile and the
\* flag-driven construction executes; the loader runs exactly when a config
\* path is given, and then the request is the loaded configuration, whatever
\* the other flags are; without a config path the loader never runs, and
\* the request is built from the flags exactly when an input is given and
\* validateInput accepts it.
C7_AtMostOneBranch ==
    Started =>
        /\ ~(LoaderRan /\ MergerRan)
        /\ LoaderRan <=> Truthy(options.config)
        /\ MergerRan <=> /\ ~Truthy(options.config)
                         /\ Truthy(options.input)
                         /\ validateInput(options.input.s, files).ok
        /\ (Truthy(options.config) /\ EngineInvoked) =>
              request = exportedConfig(modules[resolve(options.config.s)])

\* C7 happens: a run with a config path and the other flags set as well has
\* reached the engine.
C7_Witness ==
    /\ EngineInvoked
    /\ Truthy(options.config)
    /\ Truthy(options.input)
    /\ Truthy(options.output)
    /\ Truthy(options.typesOnly)
    /\ Truthy(options.dateType)

\* C8: every load of a file on disk discards the cached evaluation of the
\* resolved path before it requires the module, and what it returns is the
\* configuration of the contents the file has at that call, never one cached
\* by an earlier load.
C8_LoadIsFresh ==
    (LoadCalled /\ result.onDisk) =>
        /\ result.l.cleared
        /\ result.l.ok => result.l.value = exportedConfig(result.disk)
        /\ resolve(arg) \in DOMAIN cache => cache[resolve(arg)] = result.disk
        /\ result.l.evaluated \/ result.l.error.text = MsgTsNodeMissing

\* C8 happens: a second load of the same path returned while the cache held
\* the evaluation of contents the file no longer has.
C8_Witness ==
    /\ LoadCalled
    /\ loads >= 2
    /\ result.cached
    /\ result.before # result.disk
    /\ result.l.ok

\* the module was evaluated and module.exports is an object, so that the
\* code has an exported value to normalize
HasExportedValue ==
    /\ LoadCalled
    /\ result.onDisk
    /\ result.disk.t = "object"
    /\ endsWith(resolve(arg), ExtTs) => tsNode

\* C9: loadConfigFile throws an error carrying the "Configuration must
\* include input and output" message whenever the normalized exported value
\* lacks a non-empty input or a non-empty output, whatever else it holds,
\* and returns a configuration only when both are non-empty.
C9_RequiredFields ==
    /\ HasExportedValue =>
        LET n == exportedConfig(result.disk) IN
        IF ~Truthy(n.input) \/ ~Truthy(n.output)
        THEN /\ ~result.l.ok
             /\ result.l.error.text = MsgMustInclude
        ELSE /\ result.l.ok
             /\ result.l.value = n
    /\ (LoadCalled /\ result.l.ok) =>
        /\ Truthy(result.l.value.input)
        /\ Truthy(result.l.value.output)

\* C9 happens: a module whose exported value holds options but neither
\* input nor output was loaded and rejected.
C9_Witness ==
    /\ HasExportedValue
    /\ result.disk = TopLevelOptionsOnly
    /\ ~result.l.ok
    /\ result.l.error.text = MsgMustInclude

\* a flag is absent when commander left it undefined or it is empty
Absent(v) == v.t = "undefined" \/ (v.t = "string" /\ v.s = <<>>)

\* C10: on the flags path the request handed to the engine has the input
\* flag as input; the output flag, or "./src/generated" when absent, as
\* output; the date-type flag, or "Date" when absent, as dateType; "enum" as
\* enumStyle; true as generateEnumBasedOnDescription; and the negation of
\* the types-only flag as generateServices.
C10_FlagsRequest ==
    (EngineInvoked /\ ~Truthy(options.config)) =>
        /\ request.input = options.input
        /\ request.output = IF Absent(options.output) THEN JsStr(DefaultOutput)
                            ELSE options.output
        /\ request.options.dateType =
              IF Absent(options.dateType) THEN JsStr(DateTypeDate)
              ELSE options.dateType
        /\ request.options.enumStyle = JsStr(EnumStyleEnum)
        /\ request.options.generateEnumBasedOnDescription = JsBool(TRUE)
        /\ request.options.generateServices.t = "boolean"
        /\ request.options.generateServices.b <=> (options.typesOnly # JsBool(TRUE))

\* C10 happens: input ./a.json-like flag with --types-only and no --output
\* reached the engine.
C10_Witness ==
    /\ EngineInvoked
    /\ ~Truthy(options.config)
    /\ options.input = JsStr(InJson)
    /\ options.typesOnly = JsBool(TRUE)
    /\ options.output = JsUndef
    /\ request.output = JsStr(DefaultOutput)
    /\ request.options.generateServices = JsBool(FALSE)

====
